---- MODULE Spec2Model ----
(***************************************************************************)
(* VecList: a doubly linked list backed by one Vec of slots (src/src/lib.rs)*)
(* Handles are 0-based arena positions; slot h is list[h + 1] here.         *)
(***************************************************************************)
EXTENDS Integers, Sequences, FiniteSets, TLC

\* ---------------------------------------------------------------- bounds
\* the arena grows to at most MaxCap slots
MaxCap == 3

\* element values: VecList<T> never inspects a value, two distinct ones tell
\* the elements apart
Vals == {1, 2}
\* handles a caller may pass: every arena position and one past the largest
Handles == 0..MaxCap

\* ------------------------------------------------------- Option<usize>/<T>
None == <<>>
Some(x) == <<x>>
is_some(o) == o # None
unwrap(o) == o[1]

\* ------------------------------------------------------------------ Slot
Value(val, next, prev) == [tag |-> "Value", val |-> val, next |-> next, prev |-> prev]
Deleted(prev) == [tag |-> "Deleted", prev |-> prev]
is_deleted(slot) == slot.tag = "Deleted"
has_value(slot) == slot.tag = "Value"

VARIABLES
    list, head, tail, deleted_tail, len,   \* the fields of VecList
    fault,      \* "none", or how the program stopped
    op, ret,    \* the last call and what it returned
    abs,        \* history: the plain sequence of <<handle, value>> the calls describe
    absRet,     \* history: what the plain sequence removed in the last call
    freed,      \* history: handles deleted and not yet handed out again, newest first
    repeatDel,  \* history: the last call repeated the successful delete before it
    iter,       \* the outstanding iterator, if any
    bounded     \* Some(cap) of the BoundedList that owns the list, None for a bare VecList

vars == <<list, head, tail, deleted_tail, len, fault, op, ret, abs, absRet, freed,
          repeatDel, iter, bounded>>
fields == <<list, head, tail, deleted_tail, len>>

Self == [list |-> list, head |-> head, tail |-> tail,
         deleted_tail |-> deleted_tail, len |-> len]

new == [list |-> <<>>, head |-> None, tail |-> None, deleted_tail |-> None, len |-> 0]

\* ------------------------------------------------------------- accessors
cap(self) == Len(self.list)
is_empty(self) == self.len = 0
in_range(self, idx) == idx < cap(self)
get_slot(self, idx) == self.list[idx + 1]
set_slot(self, idx, slot) == [self EXCEPT !.list[idx + 1] = slot]

\* results of a call: the list afterwards, the value returned, and whether the
\* call ran into an assert ("assert") or broke an unchecked assumption
\* ("unchecked": a debug_assert in a debug build, undefined behaviour otherwise)
Ok(self, r) == [self |-> self, ret |-> r, fault |-> "none"]
Unchecked(self) == [self |-> self, ret |-> None, fault |-> "unchecked"]
Abort(self) == [self |-> self, ret |-> None, fault |-> "assert"]

\* the slot at idx is there and holds a value / is deleted
occupied(self, idx) == in_range(self, idx) /\ has_value(get_slot(self, idx))
vacant(self, idx) == in_range(self, idx) /\ is_deleted(get_slot(self, idx))

\* ------------------------------------------------------------- push_back
\* mutant: the old tail keeps next = None
link_old_tail_unlinked(self, old, idx) == self

\* link old tail's next to the new element (lib.rs 106-115, 137-145)
link_old_tail(self, old, idx) ==
    set_slot(self, old, [get_slot(self, old) EXCEPT !.next = Some(idx)])

\* mutant: the slot taken stays on top of the free stack
push_back_reuse_keep_top(self, val) ==
    LET deleted_idx == unwrap(self.deleted_tail)
        old_tail == self.tail
    IN  IF ~vacant(self, deleted_idx) THEN Unchecked(self)
        ELSE
        LET s1 == set_slot(self, deleted_idx, Value(val, None, old_tail))
        IN  IF is_some(s1.tail) /\ ~occupied(s1, unwrap(s1.tail)) THEN Unchecked(self)
            ELSE
            LET s2 == IF is_some(s1.tail)
                      THEN link_old_tail(s1, unwrap(s1.tail), deleted_idx)
                      ELSE s1
                s3 == [s2 EXCEPT !.tail = Some(deleted_idx)]
                s4 == IF is_empty(s3) THEN [s3 EXCEPT !.head = s3.tail] ELSE s3
            IN  Ok([s4 EXCEPT !.len = @ + 1], deleted_idx)

\* the branch that takes the top of the free stack
push_back_reuse(self, val) ==
    LET deleted_idx == unwrap(self.deleted_tail)
        old_tail == self.tail
    IN  IF ~vacant(self, deleted_idx) THEN Unchecked(self)
        ELSE
        LET deleted_prev == get_slot(self, deleted_idx).prev
            s1 == set_slot(self, deleted_idx, Value(val, None, old_tail))
        IN  IF is_some(s1.tail) /\ ~occupied(s1, unwrap(s1.tail)) THEN Unchecked(self)
            ELSE
            LET s2 == IF is_some(s1.tail)
                      THEN link_old_tail(s1, unwrap(s1.tail), deleted_idx)
                      ELSE s1
                s3 == [s2 EXCEPT !.deleted_tail = deleted_prev,
                                 !.tail = Some(deleted_idx)]
                s4 == IF is_empty(s3) THEN [s3 EXCEPT !.head = s3.tail] ELSE s3
            IN  Ok([s4 EXCEPT !.len = @ + 1], deleted_idx)

\* mutant: the handle returned is one past the slot that was appended
push_back_append_past(self, val) ==
    LET cur_idx == self.len
        s1 == [self EXCEPT !.list = Append(@, Value(val, None, self.tail))]
    IN  IF is_empty(s1)
        THEN Ok([s1 EXCEPT !.head = Some(0), !.tail = Some(cur_idx), !.len = @ + 1],
                cur_idx + 1)
        ELSE IF ~is_some(s1.tail) \/ ~occupied(s1, unwrap(s1.tail))
             THEN Unchecked(self)
             ELSE LET s2 == link_old_tail(s1, unwrap(s1.tail), cur_idx)
                  IN  Ok([s2 EXCEPT !.tail = Some(cur_idx), !.len = @ + 1],
                         cur_idx + 1)

\* the branch that appends a slot to the arena
push_back_append(self, val) ==
    LET cur_idx == self.len
        s1 == [self EXCEPT !.list = Append(@, Value(val, None, self.tail))]
    IN  IF is_empty(s1)
        THEN Ok([s1 EXCEPT !.head = Some(0), !.tail = Some(cur_idx), !.len = @ + 1],
                cur_idx)
        ELSE IF ~is_some(s1.tail) \/ ~occupied(s1, unwrap(s1.tail))
             THEN Unchecked(self)
             ELSE LET s2 == link_old_tail(s1, unwrap(s1.tail), cur_idx)
                  IN  Ok([s2 EXCEPT !.tail = Some(cur_idx), !.len = @ + 1], cur_idx)

\* mutant: the free stack is ignored and a slot is always appended
push_back_always_append(self, val) == push_back_append(self, val)

push_back(self, val) ==
    IF is_some(self.deleted_tail) THEN push_back_reuse(self, val)
    ELSE push_back_append(self, val)

\* ------------------------------------------------------------ push_front
\* mutant: the old head keeps prev = None
link_old_head_unlinked(self, old, idx) == self

\* link old head's prev to the new element (lib.rs 176-184, 206-214)
link_old_head(self, old, idx) ==
    set_slot(self, old, [get_slot(self, old) EXCEPT !.prev = Some(idx)])

push_front_reuse(self, val) ==
    LET deleted_idx == unwrap(self.deleted_tail)
        old_head == self.head
    IN  IF ~vacant(self, deleted_idx) THEN Unchecked(self)
        ELSE
        LET deleted_prev == get_slot(self, deleted_idx).prev
            s1 == set_slot(self, deleted_idx, Value(val, old_head, None))
        IN  IF is_some(s1.head) /\ ~occupied(s1, unwrap(s1.head)) THEN Unchecked(self)
            ELSE
            LET s2 == IF is_some(s1.head)
                      THEN link_old_head(s1, unwrap(s1.head), deleted_idx)
                      ELSE s1
                s3 == [s2 EXCEPT !.deleted_tail = deleted_prev,
                                 !.head = Some(deleted_idx)]
                s4 == IF is_empty(s3) THEN [s3 EXCEPT !.tail = s3.head] ELSE s3
            IN  Ok([s4 EXCEPT !.len = @ + 1], deleted_idx)

push_front_append(self, val) ==
    LET cur_idx == self.len
        s1 == [self EXCEPT !.list = Append(@, Value(val, self.head, None))]
    IN  IF is_empty(s1)
        THEN Ok([s1 EXCEPT !.tail = Some(0), !.head = Some(cur_idx), !.len = @ + 1],
                cur_idx)
        ELSE IF ~is_some(s1.head) \/ ~occupied(s1, unwrap(s1.head))
             THEN Unchecked(self)
             ELSE LET s2 == link_old_head(s1, unwrap(s1.head), cur_idx)
                  IN  Ok([s2 EXCEPT !.head = Some(cur_idx), !.len = @ + 1], cur_idx)

\* mutant: the free stack is ignored and a slot is always appended
push_front_always_append(self, val) == push_front_append(self, val)

push_front(self, val) ==
    IF is_some(self.deleted_tail) THEN push_front_reuse(self, val)
    ELSE push_front_append(self, val)

\* ---------------------------------------------------------------- delete
\* mutant: the tail is not retreated when the tail slot is deleted
solve_head_tail_keep_tail(self, idx, to_delete_next, to_delete_prev) ==
    IF unwrap(self.head) = idx THEN [self EXCEPT !.head = to_delete_next] ELSE self

\* solve head && tail (lib.rs 315-320)
solve_head_tail(self, idx, to_delete_next, to_delete_prev) ==
    LET s1 == IF unwrap(self.head) = idx THEN [self EXCEPT !.head = to_delete_next]
              ELSE self
    IN  IF unwrap(self.tail) = idx THEN [s1 EXCEPT !.tail = to_delete_prev] ELSE s1

\* mutant: the slot before the deleted one keeps its next link
solve_previous_unlinked(self, to_delete_next, to_delete_prev) == self

\* solve previous (lib.rs 323-333)
solve_previous(self, to_delete_next, to_delete_prev) ==
    IF is_some(to_delete_prev)
    THEN set_slot(self, unwrap(to_delete_prev),
                  [get_slot(self, unwrap(to_delete_prev)) EXCEPT !.next = to_delete_next])
    ELSE self

\* mutant: the slot after the deleted one keeps its prev link
solve_next_unlinked(self, to_delete_next, to_delete_prev) == self

\* solve next (lib.rs 336-346)
solve_next(self, to_delete_next, to_delete_prev) ==
    IF is_some(to_delete_next)
    THEN set_slot(self, unwrap(to_delete_next),
                  [get_slot(self, unwrap(to_delete_next)) EXCEPT !.prev = to_delete_prev])
    ELSE self

\* mutant: the deleted slot does not link to the previous top of the free stack
set_to_empty_orphan(self, idx, old_delete_head) ==
    [set_slot(self, idx, Deleted(None))
        EXCEPT !.deleted_tail = Some(idx), !.len = @ - 1]

\* set to empty: the slot becomes the top of the free stack (lib.rs 354-364)
set_to_empty(self, idx, old_delete_head) ==
    [set_slot(self, idx, Deleted(old_delete_head))
        EXCEPT !.deleted_tail = Some(idx), !.len = @ - 1]

\* mutant: a deleted slot is pushed onto the free stack once more
delete_deleted_again(self, idx) ==
    Ok([set_slot(self, idx, Deleted(self.deleted_tail))
           EXCEPT !.deleted_tail = Some(idx), !.len = @ - 1], None)

\* the arm of an already deleted slot (lib.rs 350)
delete_deleted(self, idx) == Ok(self, None)

\* the arm of a slot holding a value (lib.rs 308-349, 353-366)
delete_value(self, idx) ==
    LET old_delete_head == self.deleted_tail
        to_delete == get_slot(self, idx)
        to_delete_next == to_delete.next
        to_delete_prev == to_delete.prev
    IN  IF ~is_some(self.head) \/ ~is_some(self.tail) THEN Unchecked(self)
        ELSE
        LET s1 == solve_head_tail(self, idx, to_delete_next, to_delete_prev)
        IN  IF is_some(to_delete_prev) /\ ~occupied(s1, unwrap(to_delete_prev))
            THEN Unchecked(self)
            ELSE
            LET s2 == solve_previous(s1, to_delete_next, to_delete_prev)
            IN  IF is_some(to_delete_next) /\ ~occupied(s2, unwrap(to_delete_next))
                THEN Unchecked(self)
                ELSE
                LET s3 == solve_next(s2, to_delete_next, to_delete_prev)
                IN  Ok(set_to_empty(s3, idx, old_delete_head), Some(to_delete.val))

\* mutant: a handle out of range is answered with None, without the assertion
delete_unasserted(self, idx) ==
    IF ~(idx < cap(self)) THEN Ok(self, None)
    ELSE IF has_value(get_slot(self, idx)) THEN delete_value(self, idx)
    ELSE delete_deleted(self, idx)

delete(self, idx) ==
    IF ~(idx < cap(self)) THEN Abort(self)
    ELSE IF has_value(get_slot(self, idx)) THEN delete_value(self, idx)
    ELSE delete_deleted(self, idx)

pop_front(self) == IF is_some(self.head) THEN delete(self, unwrap(self.head))
                   ELSE Ok(self, None)

\* mutant: the tail is not looked at and slot 0 is deleted on an empty list
pop_back_unguarded(self) ==
    delete(self, IF is_some(self.tail) THEN unwrap(self.tail) ELSE 0)

pop_back(self) == IF is_some(self.tail) THEN delete(self, unwrap(self.tail))
                  ELSE Ok(self, None)

\* mutant: the free stack anchor survives the clear
clear_keep_free(self) ==
    Ok([list |-> <<>>, len |-> 0, head |-> None, tail |-> None,
        deleted_tail |-> self.deleted_tail], None)

clear(self) == Ok([list |-> <<>>, len |-> 0, head |-> None, tail |-> None,
                   deleted_tail |-> None], None)

\* --------------------------------------------------------------- queries
front(self) ==
    IF ~is_some(self.head) THEN Ok(self, None)
    ELSE IF ~occupied(self, unwrap(self.head)) THEN Unchecked(self)
    ELSE Ok(self, Some(<<get_slot(self, unwrap(self.head)).val, unwrap(self.head)>>))

back(self) ==
    IF ~is_some(self.tail) THEN Ok(self, None)
    ELSE IF ~occupied(self, unwrap(self.tail)) THEN Unchecked(self)
    ELSE Ok(self, Some(<<get_slot(self, unwrap(self.tail)).val, unwrap(self.tail)>>))

front_mut(self) ==
    IF ~is_some(self.head) THEN Ok(self, None)
    ELSE IF ~occupied(self, unwrap(self.head)) THEN Unchecked(self)
    ELSE Ok(self, Some(<<get_slot(self, unwrap(self.head)).val, unwrap(self.head)>>))

back_mut(self) ==
    IF ~is_some(self.tail) THEN Ok(self, None)
    ELSE IF ~occupied(self, unwrap(self.tail)) THEN Unchecked(self)
    ELSE Ok(self, Some(<<get_slot(self, unwrap(self.tail)).val, unwrap(self.tail)>>))

\* mutant: the last slot of the arena counts as out of range
get_short_range(self, idx) ==
    IF idx + 1 < cap(self) /\ has_value(get_slot(self, idx))
    THEN Some(get_slot(self, idx).val)
    ELSE None

get(self, idx) ==
    IF idx < cap(self) /\ has_value(get_slot(self, idx))
    THEN Some(get_slot(self, idx).val)
    ELSE None

\* the same match on list.get_mut(idx); nothing is written through the reference
get_mut(self, idx) == get(self, idx)

\* list[index]: get(index).expect("invalid key!")
index(self, idx) ==
    IF is_some(get(self, idx)) THEN Ok(self, unwrap(get(self, idx)))
    ELSE Abort(self)

\* list[index] in a place expression: get_mut(index).expect("invalid key!")
index_mut(self, idx) ==
    IF is_some(get_mut(self, idx)) THEN Ok(self, unwrap(get_mut(self, idx)))
    ELSE Abort(self)

\* the early return of next and previous (lib.rs 445-447, 458-460)
early_return(self, idx) == idx < cap(self)

next(self, idx) ==
    IF early_return(self, idx) THEN Ok(self, None)
    ELSE IF ~in_range(self, idx) THEN Unchecked(self)
    ELSE IF has_value(get_slot(self, idx)) THEN Ok(self, get_slot(self, idx).next)
    ELSE Ok(self, None)

previous(self, idx) ==
    IF early_return(self, idx) THEN Ok(self, None)
    ELSE IF ~in_range(self, idx) THEN Unchecked(self)
    ELSE IF has_value(get_slot(self, idx)) THEN Ok(self, get_slot(self, idx).prev)
    ELSE Ok(self, None)

\* ------------------------------------------------------------- iterators
NoIter == [kind |-> "none", next |-> None, prev |-> None,
           front |-> <<>>, back |-> <<>>, len0 |-> 0]

\* iter, iter_mut: two cursors over the borrowed list; into_iter: the list itself
iter_new(self, kind) ==
    [kind |-> kind,
     next |-> IF kind = "IntoIter" THEN None ELSE self.head,
     prev |-> IF kind = "IntoIter" THEN None ELSE self.tail,
     front |-> <<>>, back |-> <<>>, len0 |-> self.len]

\* Iter::next and IterMut::next: the cursor, the item, the fault
cursor_next(self, cursor) ==
    IF ~is_some(cursor) THEN [cursor |-> cursor, ret |-> None, fault |-> "none"]
    ELSE IF ~occupied(self, unwrap(cursor))
         THEN [cursor |-> cursor, ret |-> None, fault |-> "unchecked"]
    ELSE [cursor |-> get_slot(self, unwrap(cursor)).next,
          ret |-> Some(<<get_slot(self, unwrap(cursor)).val, unwrap(cursor)>>),
          fault |-> "none"]

\* Iter::next_back and IterMut::next_back
cursor_next_back(self, cursor) ==
    IF ~is_some(cursor) THEN [cursor |-> cursor, ret |-> None, fault |-> "none"]
    ELSE IF ~occupied(self, unwrap(cursor))
         THEN [cursor |-> cursor, ret |-> None, fault |-> "unchecked"]
    ELSE [cursor |-> get_slot(self, unwrap(cursor)).prev,
          ret |-> Some(<<get_slot(self, unwrap(cursor)).val, unwrap(cursor)>>),
          fault |-> "none"]

\* ------------------------------------------------ the plain sequence (history)
abs_find(a, h) ==
    IF \E i \in 1..Len(a) : a[i][1] = h
    THEN Some(a[CHOOSE i \in 1..Len(a) : a[i][1] = h][2])
    ELSE None
abs_remove(a, h) == SelectSeq(a, LAMBDA p : p[1] # h)
abs_front(a) == SubSeq(a, 2, Len(a))
abs_back(a) == SubSeq(a, 1, Len(a) - 1)

\* ----------------------------------------------------------- the state machine
Call(name, arg) == [name |-> name, arg |-> arg]

\* what a build makes of a broken unchecked assumption: the debug_assert of a
\* debug build, or undefined behaviour, after which nothing is known (the run is
\* cut there) and the value handed back is whatever was read
BuildOutcomes == {"debug_assert", "ub"}
UbRets == {None} \cup {Some(h) : h \in Handles}

Idle == fault = "none" /\ iter.kind = "none"

\* the call returns r: the fields and the result, or the way the program stopped
Return(r, o) ==
    /\ op' = o
    /\ UNCHANGED bounded
    /\ IF r.fault = "none"
       THEN /\ list' = r.self.list
            /\ head' = r.self.head
            /\ tail' = r.self.tail
            /\ deleted_tail' = r.self.deleted_tail
            /\ len' = r.self.len
            /\ ret' = r.ret
            /\ fault' = "none"
       ELSE /\ UNCHANGED fields
            /\ IF r.fault = "assert"
               THEN fault' = "assert" /\ ret' = None
               ELSE \E f \in BuildOutcomes :
                       /\ fault' = f
                       /\ ret' \in IF f = "ub" THEN UbRets ELSE {None}

Init ==
    /\ list = new.list /\ head = new.head /\ tail = new.tail
    /\ deleted_tail = new.deleted_tail /\ len = new.len
    /\ fault = "none" /\ op = Call("new", None) /\ ret = None
    /\ abs = <<>> /\ absRet = None /\ freed = <<>> /\ repeatDel = FALSE
    /\ iter = NoIter
    /\ bounded = None

\* the arena of the model grows to MaxCap slots
Room == is_some(deleted_tail) \/ Len(list) < MaxCap

PushBack(v) ==
    /\ Idle /\ Room
    /\ LET r == push_back(Self, v)
       IN  /\ Return(r, Call("push_back", v))
           /\ abs' = Append(abs, <<r.ret, v>>)
    /\ absRet' = None
    /\ freed' = IF freed = <<>> THEN freed ELSE Tail(freed)
    /\ repeatDel' = FALSE
    /\ UNCHANGED iter

PushFront(v) ==
    /\ Idle /\ Room
    /\ LET r == push_front(Self, v)
       IN  /\ Return(r, Call("push_front", v))
           /\ abs' = <<(<<r.ret, v>>)>> \o abs
    /\ absRet' = None
    /\ freed' = IF freed = <<>> THEN freed ELSE Tail(freed)
    /\ repeatDel' = FALSE
    /\ UNCHANGED iter

PopFront ==
    /\ Idle
    /\ Return(pop_front(Self), Call("pop_front", None))
    /\ abs' = abs_front(abs)
    /\ absRet' = IF abs = <<>> THEN None ELSE Some(abs[1][2])
    /\ freed' = IF abs = <<>> THEN freed ELSE <<abs[1][1]>> \o freed
    /\ repeatDel' = FALSE
    /\ UNCHANGED iter

PopBack ==
    /\ Idle
    /\ Return(pop_back(Self), Call("pop_back", None))
    /\ abs' = abs_back(abs)
    /\ absRet' = IF abs = <<>> THEN None ELSE Some(abs[Len(abs)][2])
    /\ freed' = IF abs = <<>> THEN freed ELSE <<abs[Len(abs)][1]>> \o freed
    /\ repeatDel' = FALSE
    /\ UNCHANGED iter

Delete(h) ==
    /\ Idle
    /\ Return(delete(Self, h), Call("delete", h))
    /\ abs' = abs_remove(abs, h)
    /\ absRet' = abs_find(abs, h)
    /\ freed' = IF abs_find(abs, h) = None THEN freed ELSE <<h>> \o freed
    /\ repeatDel' = (op.name = "delete" /\ op.arg = h /\ ret # None)
    /\ UNCHANGED iter

Clear ==
    /\ Idle
    /\ Return(clear(Self), Call("clear", None))
    /\ abs' = <<>> /\ absRet' = None /\ freed' = <<>> /\ repeatDel' = FALSE
    /\ UNCHANGED iter

\* a call that only reads
Query(r, o) ==
    /\ Idle
    /\ Return(r, o)
    /\ absRet' = None /\ repeatDel' = FALSE
    /\ UNCHANGED <<abs, freed, iter>>

Front == Query(front(Self), Call("front", None))
Back == Query(back(Self), Call("back", None))
FrontMut == Query(front_mut(Self), Call("front_mut", None))
BackMut == Query(back_mut(Self), Call("back_mut", None))
Get(h) == Query(Ok(Self, get(Self, h)), Call("get", h))
GetMut(h) == Query(Ok(Self, get_mut(Self, h)), Call("get_mut", h))
Index(h) == Query(index(Self, h), Call("index", h))
IndexMut(h) == Query(index_mut(Self, h), Call("index_mut", h))
NextHandle(h) == Query(next(Self, h), Call("next", h))
PreviousHandle(h) == Query(previous(Self, h), Call("previous", h))

\* iter(), iter_mut(), into_iter(): the list is borrowed (or moved) until the
\* iterator is dropped, so no other call runs meanwhile
Borrowing == {"Iter", "IterMut"}
IterKinds == Borrowing \cup {"IntoIter"}

IterStart(kind) ==
    /\ Idle
    /\ iter' = iter_new(Self, kind)
    /\ op' = Call(kind, None) /\ ret' = None
    /\ absRet' = None /\ repeatDel' = FALSE
    /\ UNCHANGED <<fields, fault, abs, freed, bounded>>

\* Iter::next, IterMut::next
IterNext ==
    /\ fault = "none" /\ iter.kind \in Borrowing
    /\ LET r == cursor_next(Self, iter.next)
       IN  /\ Return([self |-> Self, ret |-> r.ret, fault |-> r.fault],
                     Call("iter.next", None))
           /\ iter' = [iter EXCEPT !.next = r.cursor,
                                   !.front = IF is_some(r.ret)
                                             THEN Append(@, unwrap(r.ret)[2]) ELSE @]
    /\ absRet' = None /\ repeatDel' = FALSE
    /\ UNCHANGED <<abs, freed>>

\* Iter::next_back, IterMut::next_back
IterNextBack ==
    /\ fault = "none" /\ iter.kind \in Borrowing
    /\ LET r == cursor_next_back(Self, iter.prev)
       IN  /\ Return([self |-> Self, ret |-> r.ret, fault |-> r.fault],
                     Call("iter.next_back", None))
           /\ iter' = [iter EXCEPT !.prev = r.cursor,
                                   !.back = IF is_some(r.ret)
                                            THEN Append(@, unwrap(r.ret)[2]) ELSE @]
    /\ absRet' = None /\ repeatDel' = FALSE
    /\ UNCHANGED <<abs, freed>>

\* IntoIter::next: pop_front on the list the iterator owns
IntoIterNext ==
    /\ fault = "none" /\ iter.kind = "IntoIter"
    /\ LET r == pop_front(Self)
       IN  /\ Return(r, Call("into_iter.next", None))
           /\ iter' = [iter EXCEPT !.front = IF is_some(r.ret)
                                             THEN Append(@, unwrap(head)) ELSE @]
    /\ abs' = abs_front(abs)
    /\ absRet' = IF abs = <<>> THEN None ELSE Some(abs[1][2])
    /\ freed' = IF abs = <<>> THEN freed ELSE <<abs[1][1]>> \o freed
    /\ repeatDel' = FALSE

\* IntoIter::next_back: pop_back on the list the iterator owns
IntoIterNextBack ==
    /\ fault = "none" /\ iter.kind = "IntoIter"
    /\ LET r == pop_back(Self)
       IN  /\ Return(r, Call("into_iter.next_back", None))
           /\ iter' = [iter EXCEPT !.back = IF is_some(r.ret)
                                            THEN Append(@, unwrap(tail)) ELSE @]
    /\ abs' = abs_back(abs)
    /\ absRet' = IF abs = <<>> THEN None ELSE Some(abs[Len(abs)][2])
    /\ freed' = IF abs = <<>> THEN freed ELSE <<abs[Len(abs)][1]>> \o freed
    /\ repeatDel' = FALSE

\* a borrowing iterator goes out of scope
IterDrop ==
    /\ fault = "none" /\ iter.kind \in Borrowing
    /\ iter' = NoIter
    /\ op' = Call("drop", None) /\ ret' = None
    /\ absRet' = None /\ repeatDel' = FALSE
    /\ UNCHANGED <<fields, fault, abs, freed, bounded>>

\* a consuming iterator goes out of scope and its list with it; the program goes
\* on with a list from VecList::new()
IntoIterDrop ==
    /\ fault = "none" /\ iter.kind = "IntoIter"
    /\ iter' = NoIter
    /\ Return(Ok(new, None), Call("new", None))
    /\ abs' = <<>> /\ absRet' = None /\ freed' = <<>> /\ repeatDel' = FALSE

Next ==
    \/ \E v \in Vals : PushBack(v)
    \/ \E v \in Vals : PushFront(v)
    \/ PopFront
    \/ PopBack
    \/ \E h \in Handles : Delete(h)
    \/ Clear
    \/ Front
    \/ Back
    \/ FrontMut
    \/ BackMut
    \/ \E h \in Handles : Get(h)
    \/ \E h \in Handles : GetMut(h)
    \/ \E h \in Handles : Index(h)
    \/ \E h \in Handles : IndexMut(h)
    \/ \E h \in Handles : NextHandle(h)
    \/ \E h \in Handles : PreviousHandle(h)
    \/ \E kind \in IterKinds : IterStart(kind)
    \/ IterNext
    \/ IterNextBack
    \/ IntoIterNext
    \/ IntoIterNextBack
    \/ IterDrop
    \/ IntoIterDrop

Spec == Init /\ [][Next]_vars

\* ------------------------------------------------------ reading the chains
\* an item that no traversal yields: the traversal left the live chain (a slot
\* out of range or deleted, or more steps than the arena has slots)
Broken == <<-1, -1>>

\* the <<value, handle>> items of iter() exhausted with next()
RECURSIVE forward(_, _, _)
forward(self, cursor, fuel) ==
    IF ~is_some(cursor) THEN <<>>
    ELSE IF fuel = 0 THEN <<Broken>>
    ELSE LET r == cursor_next(self, cursor)
         IN  IF r.fault # "none" THEN <<Broken>>
             ELSE <<unwrap(r.ret)>> \o forward(self, r.cursor, fuel - 1)

\* the <<value, handle>> items of iter() exhausted with next_back()
RECURSIVE backward(_, _, _)
backward(self, cursor, fuel) ==
    IF ~is_some(cursor) THEN <<>>
    ELSE IF fuel = 0 THEN <<Broken>>
    ELSE LET r == cursor_next_back(self, cursor)
         IN  IF r.fault # "none" THEN <<Broken>>
             ELSE <<unwrap(r.ret)>> \o backward(self, r.cursor, fuel - 1)

\* the handles of the free stack from its top, as the insertions take them
RECURSIVE free_stack(_, _, _)
free_stack(self, top, fuel) ==
    IF ~is_some(top) THEN <<>>
    ELSE IF fuel = 0 \/ ~vacant(self, unwrap(top)) THEN <<-1>>
    ELSE <<unwrap(top)>> \o free_stack(self, get_slot(self, unwrap(top)).prev, fuel - 1)

Fwd == forward(Self, head, cap(Self) + 1)
Bwd == backward(Self, tail, cap(Self) + 1)
Free == free_stack(Self, deleted_tail, cap(Self) + 1)

Reverse(q) == [i \in 1..Len(q) |-> q[Len(q) + 1 - i]]
Range(q) == {q[i] : i \in 1..Len(q)}
NoDup(q) == Cardinality(Range(q)) = Len(q)
HandlesOf(items) == [i \in 1..Len(items) |-> items[i][2]]
ValuesOf(items) == [i \in 1..Len(items) |-> items[i][1]]

Inserting == {"push_back", "push_front"}
Removing == {"pop_front", "pop_back", "delete", "into_iter.next", "into_iter.next_back"}
\* the calls C1 is about: every insertion and pop, and delete within the arena
InScope == op.name \in Inserting \cup Removing
           /\ (op.name = "delete" => op.arg < cap(Self))

\* ------------------------------------------------------------------ claims

\* C1: after any sequence of push_back, push_front, pop_back, pop_front and
\* delete(h) with h < capacity, forward iteration from head yields the plain
\* sequence the same calls build (append, prepend, drop last, drop first, drop the
\* element inserted under h), and each pop or delete returns the value the plain
\* sequence removed.
C1_Refinement ==
    /\ Fwd = [i \in 1..Len(abs) |-> <<abs[i][2], abs[i][1]>>]
    /\ InScope => fault = "none"
    /\ (InScope /\ op.name \in Removing) => ret = absRet

\* delete(h) took one of three elements that were pushed at the front
C1_Witness ==
    /\ op.name = "delete" /\ ret # None /\ fault = "none"
    /\ Len(abs) = 2
    /\ abs[1][1] > op.arg /\ op.arg > abs[2][1]

\* C2: in every reachable state len() == 0, is_empty(), head == None,
\* tail == None, front() == None and back() == None are all equivalent.
C2_Emptiness ==
    LET e == (len = 0)
    IN  /\ is_empty(Self) <=> e
        /\ (head = None) <=> e
        /\ (tail = None) <=> e
        /\ front(Self).fault = "none" /\ ((front(Self).ret = None) <=> e)
        /\ back(Self).fault = "none" /\ ((back(Self).ret = None) <=> e)

\* the list was emptied by a removal and its free stack is not empty
C2_Witness ==
    /\ op.name \in {"pop_back", "pop_front", "delete"} /\ ret # None
    /\ len = 0 /\ is_some(deleted_tail) /\ cap(Self) >= 2

\* C3: after every operation the live chain is a well-formed doubly linked list:
\* the next links from head visit exactly len distinct Occupied slots and end at
\* tail, whose next is None; the prev links from tail visit the same slots in
\* reverse and end at head, whose prev is None; next(a) = b iff prev(b) = a for
\* neighbours a -> b.
C3_WellFormedChain ==
    LET f == HandlesOf(Fwd)
        b == HandlesOf(Bwd)
    IN  /\ Len(f) = len
        /\ NoDup(f)
        /\ \A i \in 1..Len(f) : occupied(Self, f[i])
        /\ len > 0 => /\ head = Some(f[1])
                      /\ tail = Some(f[Len(f)])
                      /\ get_slot(Self, f[Len(f)]).next = None
                      /\ get_slot(Self, f[1]).prev = None
        /\ b = Reverse(f)
        /\ \A i \in 1..(Len(f) - 1) :
              /\ get_slot(Self, f[i]).next = Some(f[i + 1])
              /\ get_slot(Self, f[i + 1]).prev = Some(f[i])

\* three live elements, pushed at both ends, whose chain order is not the arena
\* order
C3_Witness ==
    /\ len = 3 /\ op.name \in Inserting /\ fault = "none"
    /\ HandlesOf(Fwd) # <<0, 1, 2>> /\ HandlesOf(Fwd) # <<2, 1, 0>>

\* C4: after every operation every arena position below capacity is in exactly
\* one of the live chain (Occupied) and the free stack (Deleted); the free stack
\* is acyclic, visits only Deleted slots and holds exactly capacity - len slots.
C4_Partition ==
    LET f == HandlesOf(Fwd)
    IN  /\ Range(f) \cup Range(Free) = 0..(cap(Self) - 1)
        /\ Range(f) \cap Range(Free) = {}
        /\ NoDup(Free)
        /\ \A i \in 1..Len(Free) : vacant(Self, Free[i])
        /\ \A i \in 1..Len(f) : occupied(Self, f[i])
        /\ Len(Free) = cap(Self) - len
        /\ cap(Self) >= len

\* a live element beside a free stack of two slots
C4_Witness ==
    /\ len >= 1 /\ Len(Free) >= 2 /\ op.name \in Removing /\ ret # None

\* C5: a handle returned by an insertion with value v, and not deleted since,
\* gives get(h) == Some(v) after any later insertions and deletions of other
\* handles; no two live elements share a handle.
C5_HandleStability ==
    /\ \A i \in 1..Len(abs) : get(Self, abs[i][1]) = Some(abs[i][2])
    /\ NoDup([i \in 1..Len(abs) |-> abs[i][1]])

\* an element outlived the deletion of an older one and the insertion that took
\* the freed slot
C5_Witness ==
    /\ op.name = "push_back" /\ fault = "none" /\ Len(abs) = 2
    /\ abs[2][1] = ret /\ ret < abs[1][1]
    /\ abs[1][2] # abs[2][2]

\* the neighbour of handle h in forward iteration order, d = 1 after, d = -1 before
Neighbour(h, d) ==
    LET f == HandlesOf(Fwd)
        i == CHOOSE j \in 1..Len(f) : f[j] = h
    IN  IF i + d \in 1..Len(f) THEN Some(f[i + d]) ELSE None

\* C6: for every Occupied handle h, next(h) returns the handle of the element
\* right after h in forward iteration order (None iff h is tail) and previous(h)
\* the handle of the element right before h (None iff h is head).
C6_NeighbourLookup ==
    /\ (op.name = "next" /\ occupied(Self, op.arg))
          => (fault = "none" /\ ret = Neighbour(op.arg, 1))
    /\ (op.name = "previous" /\ occupied(Self, op.arg))
          => (fault = "none" /\ ret = Neighbour(op.arg, -1))

\* C7: for every handle h out of range or whose slot is Deleted, next(h) and
\* previous(h) return None as an ordinary result: no assertion fires and no slot
\* outside the arena is read.
C7_AbsentHandle ==
    (op.name \in {"next", "previous"} /\ ~occupied(Self, op.arg))
        => (fault = "none" /\ ret = None)

IterCalls == {"iter.next", "iter.next_back", "into_iter.next", "into_iter.next_back"}

\* C8: for any interleaving of next() and next_back() on one iterator over a list
\* of length len, each live element is yielded at most once, the number of
\* elements yielded is exactly len once a call returns None, and never more.
C8_CursorsMeet ==
    iter.kind # "none" =>
        LET y == iter.front \o iter.back
        IN  /\ NoDup(y)
            /\ Len(y) <= iter.len0
            /\ (op.name \in IterCalls /\ fault = "none" /\ ret = None)
                  => Len(y) = iter.len0

\* C9: for every Occupied handle h holding v, delete(h) returns Some(v) and
\* decrements len by exactly one; a second delete(h) right after it returns None
\* and leaves head, tail, free_top, len, capacity and every slot unchanged.
C9_IdempotentDelete ==
    [][ /\ (op'.name = "delete" /\ occupied(Self, op'.arg))
              => /\ fault' = "none"
                 /\ ret' = Some(get_slot(Self, op'.arg).val)
                 /\ len' = len - 1
        /\ (op.name = "delete" /\ fault = "none" /\ ret # None
              /\ op'.name = "delete" /\ op'.arg = op.arg)
              => /\ fault' = "none"
                 /\ ret' = None
                 /\ UNCHANGED fields ]_vars

\* the second of two deletes of one handle has run, beside a live element
C9_Witness ==
    repeatDel /\ op.name = "delete" /\ ret = None /\ fault = "none" /\ len >= 1

\* C10: an insertion that follows deletions returns the handle deleted last and
\* not yet handed out again, and capacity does not grow: after deleting h1..hk
\* the next k insertions return hk..h1.
C10_LifoReuse ==
    [][ (op'.name \in Inserting /\ freed # <<>>)
            => /\ fault' = "none"
               /\ ret' = Head(freed)
               /\ Len(list') = Len(list) ]_vars

\* an insertion took a freed slot that is not the last of the arena while an
\* older freed slot is still waiting
C10_Witness ==
    /\ op.name \in Inserting /\ fault = "none"
    /\ freed # <<>> /\ ret # cap(Self) - 1 /\ ret > Head(freed)

\* ------------------------------------------------------------ round trips
\* the longest run of values pushed and popped again
MaxTrip == 3
TripInputs == UNION {[1..n -> Vals] : n \in 0..MaxTrip}

\* push_back of each value of vs in turn
RECURSIVE push_back_all(_, _)
push_back_all(self, vs) ==
    IF vs = <<>> THEN self
    ELSE push_back_all(push_back(self, Head(vs)).self, Tail(vs))

\* n calls of pop_front (or of pop_back): the list afterwards and what they returned
RECURSIVE drain(_, _, _)
drain(self, n, from_front) ==
    IF n = 0 THEN [self |-> self, out |-> <<>>]
    ELSE LET r == IF from_front THEN pop_front(self) ELSE pop_back(self)
             rest == drain(r.self, n - 1, from_front)
         IN  [self |-> rest.self, out |-> <<r.ret>> \o rest.out]

Emptied(self) == self.len = 0 /\ self.head = None /\ self.tail = None

\* C11: from any reachable empty list (fresh, cleared, or emptied by deletions),
\* push_back(v1..vn) followed by n pop_front calls returns v1, ..., vn in that
\* order, followed instead by n pop_back calls returns vn, ..., v1, and the list
\* is empty afterwards in both cases.
C11_RoundTrip ==
    (len = 0 /\ fault = "none") =>
        \A vs \in TripInputs :
            LET s == push_back_all(Self, vs)
                f == drain(s, Len(vs), TRUE)
                b == drain(s, Len(vs), FALSE)
                want == [i \in 1..Len(vs) |-> Some(vs[i])]
            IN  /\ s.len = Len(vs)
                /\ f.out = want /\ Emptied(f.self)
                /\ b.out = Reverse(want) /\ Emptied(b.self)

\* three pop_front calls emptied a list of the handles 0, 1, 2 in that order, so
\* the next round trip starts on a free stack of three slots
C11_Witness ==
    /\ op.name = "pop_front" /\ ret # None /\ fault = "none"
    /\ len = 0 /\ freed = <<2, 1, 0>>

\* C12: in every reachable state a fresh iterator exhausted with next() only and
\* another exhausted with next_back() only each yield exactly len (value, handle)
\* pairs, the backward sequence is the reverse of the forward one, and every
\* yielded handle h satisfies get(h) == Some(value).
C12_IteratorAgreement ==
    /\ Broken \notin Range(Fwd) \cup Range(Bwd)
    /\ Len(Fwd) = len /\ Len(Bwd) = len
    /\ Bwd = Reverse(Fwd)
    /\ \A i \in 1..Len(Fwd) : get(Self, Fwd[i][2]) = Some(Fwd[i][1])
    /\ (iter.kind \in Borrowing /\ op.name = "iter.next" /\ ret = None
            /\ iter.back = <<>>) => iter.front = HandlesOf(Fwd)
    /\ (iter.kind \in Borrowing /\ op.name = "iter.next_back" /\ ret = None
            /\ iter.front = <<>>) => iter.back = HandlesOf(Bwd)

\* an iterator was exhausted with next_back() alone over three elements whose
\* chain order is not the arena order
C12_Witness ==
    /\ iter.kind \in Borrowing /\ op.name = "iter.next_back" /\ ret = None
    /\ iter.front = <<>> /\ Len(iter.back) = 3
    /\ iter.back # <<2, 1, 0>> /\ iter.back # <<0, 1, 2>>

\* ----------------------------------------------------------- BoundedList
\* (src/src/bounded.rs) a VecList and a fixed cap
BoundedVals == {1, 2, 3}

\* BoundedList::add; handle is the handle the inner push returned and add drops
add(self, cap_, val) ==
    IF self.len = cap_
    THEN LET p == pop_back(self)
             q == push_front(p.self, val)
         IN  [self |-> q.self, ret |-> None, handle |-> q.ret,
              fault |-> IF p.fault # "none" THEN p.fault ELSE q.fault]
    ELSE LET q == push_back(self, val)
         IN  [self |-> q.self, ret |-> None, handle |-> q.ret, fault |-> q.fault]

\* BoundedList::new(cap)
InitBounded ==
    /\ list = new.list /\ head = new.head /\ tail = new.tail
    /\ deleted_tail = new.deleted_tail /\ len = new.len
    /\ fault = "none" /\ op = Call("new", None) /\ ret = None
    /\ abs = <<>> /\ absRet = None /\ freed = <<>> /\ repeatDel = FALSE
    /\ iter = NoIter
    /\ bounded \in {Some(c) : c \in 0..MaxCap}

\* this add appends a slot to the arena
Grows == ~is_some(deleted_tail) /\ ~(len = unwrap(bounded) /\ is_some(tail))

Add(v) ==
    /\ Idle /\ (Grows => Len(list) < MaxCap)
    /\ LET r == add(Self, unwrap(bounded), v)
           evict == Len(abs) = unwrap(bounded)
           kept == IF evict THEN abs_back(abs) ELSE abs
           popped == IF evict /\ abs # <<>> THEN <<abs[Len(abs)][1]>> \o freed ELSE freed
       IN  /\ Return(r, Call("add", v))
           /\ abs' = IF evict THEN <<(<<r.handle, v>>)>> \o kept
                     ELSE Append(kept, <<r.handle, v>>)
           /\ absRet' = None
           /\ freed' = IF popped = <<>> THEN popped ELSE Tail(popped)
    /\ repeatDel' = FALSE
    /\ UNCHANGED iter

\* BoundedList::len
BoundedLen == Query(Ok(Self, len), Call("len", None))

\* BoundedList::is_empty
BoundedIsEmpty == Query(Ok(Self, len = 0), Call("is_empty", None))

NextBounded ==
    \/ \E v \in BoundedVals : Add(v)
    \/ BoundedLen
    \/ BoundedIsEmpty
    \/ IterStart("Iter")
    \/ IterNext
    \/ IterNextBack
    \/ IterDrop

SpecBounded == InitBounded /\ [][NextBounded]_vars

\* C13: when len < cap, add(v) appends v at the back; when len == cap, add(v)
\* removes the tail element and inserts v at the front, so the content becomes
\* [v] followed by the old content without its last element and len stays equal
\* to cap (with cap = 2: add(1), add(2), add(3) gives [3, 1]).
C13_Eviction ==
    [][ op'.name = "add" =>
          /\ fault' = "none"
          /\ len < unwrap(bounded) =>
                ValuesOf(Fwd') = Append(ValuesOf(Fwd), op'.arg)
          /\ len = unwrap(bounded) =>
                /\ ValuesOf(Fwd') =
                      <<op'.arg>> \o SubSeq(ValuesOf(Fwd), 1, Len(Fwd) - 1)
                /\ len' = unwrap(bounded) ]_vars

\* C19: BoundedList is bounded for every cap, cap = 0 included: after
\* BoundedList::new(cap) and any sequence of add calls, len() <= cap.
C19_Bounded == len <= unwrap(bounded)

\* C14: from any reachable state, after clear() len == 0, capacity == 0,
\* head == None, tail == None and free_top == None: the list is the list of
\* VecList::new() field by field, so every later call returns what it returns on
\* a fresh list (the next push_back or push_front returns handle 0).
C14_ClearResets ==
    [][ op'.name = "clear" =>
          /\ fault' = "none"
          /\ len' = 0 /\ Len(list') = 0
          /\ head' = None /\ tail' = None /\ deleted_tail' = None
          /\ Self' = new
          /\ \A v \in Vals : /\ push_back(Self', v).ret = 0
                             /\ push_front(Self', v).ret = 0
                             /\ push_back(Self', v).self.list = <<Value(v, None, None)>> ]_vars

\* clear() has run and left the fresh list
C14_Witness == op.name = "clear" /\ fault = "none" /\ Self = new

\* C15: get(h) and get_mut(h) return None exactly when h >= capacity or the slot
\* at h is Deleted, and otherwise the value stored in the Occupied slot at h,
\* which is the value of the last insertion that returned h (the new occupant
\* after a delete-then-reuse cycle); the call changes no field.
C15_Get ==
    [][ op'.name \in {"get", "get_mut"} =>
          /\ fault' = "none"
          /\ UNCHANGED fields
          /\ (ret' = None) <=> (op'.arg >= cap(Self) \/ vacant(Self, op'.arg))
          /\ occupied(Self, op'.arg) => ret' = Some(get_slot(Self, op'.arg).val)
          /\ ret' = abs_find(abs, op'.arg) ]_vars

\* get on a handle of the chain 0 -> 2 -> 1, an order that only the reuse of a
\* deleted slot produces
C15_Witness ==
    /\ op.name = "get" /\ ret # None /\ fault = "none"
    /\ HandlesOf(Fwd) = <<0, 2, 1>> /\ op.arg \in {0, 1}

\* C16: delete(h) with h >= capacity (any h when the capacity is 0) stops the
\* program through the assertion with every field and slot as before; list[h]
\* stops the program exactly when get(h) is None (h out of range or the slot
\* Deleted), and otherwise yields the value that get(h) holds.
C16_Unrecoverable ==
    [][ /\ (op'.name = "delete" /\ op'.arg >= cap(Self)) =>
              fault' = "assert" /\ UNCHANGED fields
        /\ (op'.name = "delete" /\ op'.arg < cap(Self)) => fault' # "assert"
        /\ op'.name \in {"index", "index_mut"} =>
              /\ UNCHANGED fields
              /\ (fault' = "assert") <=> (get(Self, op'.arg) = None)
              /\ (fault' = "assert") <=>
                    (op'.arg >= cap(Self) \/ vacant(Self, op'.arg))
              /\ fault' # "assert" =>
                    fault' = "none" /\ Some(ret') = get(Self, op'.arg) ]_vars

\* the assertion of delete stopped the program on a list that holds values
C16_Witness ==
    /\ op.name = "delete" /\ fault = "assert" /\ op.arg >= cap(Self)
    /\ len >= 1 /\ is_some(deleted_tail)

\* C17: the capacity (length of the arena) changes in two ways only: an
\* insertion that finds the free stack empty grows it by exactly one, and clear()
\* resets it to 0; delete and the pops never shrink it, an insertion with a
\* non-empty free stack never grows it. An insertion that appends returns the
\* position of the new slot, which is both the capacity and the len from before
\* the insertion.
Pushes == {"push_back", "push_front"}
C17_CapacityLifecycle ==
    [][ op'.name # "new" =>
          /\ Len(list') # cap(Self) =>
                \/ op'.name \in Pushes /\ ~is_some(deleted_tail)
                \/ op'.name = "clear"
          /\ op'.name = "clear" => Len(list') = 0
          /\ op'.name \in {"delete", "pop_front", "pop_back"} =>
                Len(list') = cap(Self)
          /\ (op'.name \in Pushes /\ is_some(deleted_tail)) =>
                Len(list') = cap(Self)
          /\ (op'.name \in Pushes /\ ~is_some(deleted_tail)) =>
                /\ fault' = "none"
                /\ Len(list') = cap(Self) + 1
                /\ ret' = cap(Self) /\ ret' = len
                /\ has_value(list'[ret' + 1])
                /\ list'[ret' + 1].val = op'.arg ]_vars

\* push_front appended the third slot of the arena and returned its position
C17_Witness ==
    /\ op.name = "push_front" /\ fault = "none" /\ ret = 2 /\ Len(list) = 3
    /\ len = 3 /\ head = Some(2)

\* C18: on an empty list (len = 0: fresh, cleared, or emptied by deletions with
\* slots left on the free stack) pop_front, pop_back, front and back return None
\* without any fault, and head, tail, the free-stack top, len, the capacity and
\* every slot stay as they were.
EmptyQueries == {"pop_front", "pop_back", "front", "back"}
C18_EmptyQueries ==
    [][ (len = 0 /\ op'.name \in EmptyQueries) =>
           ret' = None /\ fault' = "none" /\ UNCHANGED fields ]_vars

\* pop_back answered None on a list emptied by deletions, its slots all free
C18_Witness ==
    /\ op.name = "pop_back" /\ ret = None /\ fault = "none"
    /\ len = 0 /\ is_some(deleted_tail) /\ Len(list) >= 2

\* C20: no unchecked assumption of the mutating and peeking operations is ever
\* broken: after any sequence of push_back, push_front, pop_back, pop_front,
\* delete(h) with h < capacity, front, back, front_mut, back_mut and clear, the
\* call that ran last met no slot index >= capacity, found the free-stack top
\* Deleted, found the old head / tail and the neighbours it relinks Occupied,
\* found head and tail Some when deleting an Occupied slot, and so reached no
\* unreachable_unchecked arm and no failing debug_assert.
Checked ==
    {"push_back", "push_front", "pop_back", "pop_front", "delete",
     "front", "back", "front_mut", "back_mut", "clear",
     "into_iter.next", "into_iter.next_back"}
C20_AssumptionsHold ==
    /\ op.name \in Checked => fault \notin BuildOutcomes
    /\ fault = "none" =>
          /\ push_back(Self, 1).fault = "none"
          /\ push_front(Self, 1).fault = "none"
          /\ pop_back(Self).fault = "none"
          /\ pop_front(Self).fault = "none"
          /\ front(Self).fault = "none" /\ back(Self).fault = "none"
          /\ front_mut(Self).fault = "none" /\ back_mut(Self).fault = "none"
          /\ \A h \in 0..(cap(Self) - 1) : delete(Self, h).fault = "none"

\* back_mut read the tail of a list that holds values beside slots on the free
\* stack: insertions, a deletion and a peek have all run without a fault
C20_Witness ==
    /\ op.name = "back_mut" /\ ret # None /\ fault = "none"
    /\ is_some(deleted_tail) /\ len >= 1
    /\ unwrap(tail) < unwrap(deleted_tail)
====
